---- MODULE Spec2Model ----
(***************************************************************************)
(* A model of google_form_bot.py: the sampling helpers (_normalize,        *)
(* weighted_choice, weighted_sample_unique, random_k_for_checkbox), the    *)
(* answer generator build_prob_answers, the field fillers and the page     *)
(* sequencer run_bot.                                                      *)
(*                                                                         *)
(* Floats are modelled exactly: a weight is an integer, a probability is a *)
(* fraction <<numerator, denominator>>, and a value of random.random() is  *)
(* j / Grid for j in 0 .. Grid-1 (so 0 is a possible draw and 1 is not).   *)
(***************************************************************************)
EXTENDS Integers, Sequences, FiniteSets, TLC

VARIABLES
    \* ---- sampling helpers (weighted_choice, weighted_sample_unique)
    options,      \* the options argument (a sequence of labels)
    weights_map,  \* the weights_map argument (a function on some labels)
    k,            \* the k argument of weighted_sample_unique
    r,            \* numerator of the last random.random() value (over Grid)
    pick,         \* the last value returned by weighted_choice
    remaining,    \* weighted_sample_unique: the private copy of options
    selected,     \* weighted_sample_unique: the result list
    iter,         \* weighted_sample_unique: iterations of the for loop left
    spc,          \* position in the sampling call
    free,         \* random source: the field whose draws range over Draws
    \* ---- build_prob_answers
    OPTS,         \* the module-level catalog of option lists
    WEIGHTS,      \* the module-level weight tables
    bpc,          \* build_prob_answers: the statement to execute next
    built,        \* build_prob_answers: the fields assigned so far
    builds,       \* number of build_prob_answers calls that returned
    \* ---- field fillers on one question block
    filler,       \* the filler or button function that is called
    block,        \* the question block: found, locators and checked states
    choices,      \* select_radio, select_checkboxes: the choice(s) argument
    rows_to_values, \* select_linear_scale_from_dict: the items of rows_to_values
    buttons,      \* click_next, click_submit: the buttons of the page
    matrix,       \* the rating matrix block: found, rows, columns, failing row
    columns,      \* select_linear_scale_permutation: the shuffled columns
    events,       \* the page interactions of the filler calls so far
    error,        \* "ok", or the error the last filler call raised
    calls,        \* number of filler calls made
    mark,         \* Len(events) when the latest call started
    \* ---- run_bot
    answers,      \* the answers argument
    rpc,          \* run_bot: the statement to execute next
    log,          \* the filler and button calls made so far, with their outcome
    state,        \* the form's state: Page1, Page2, Page3 or Submitted
    closed,       \* ctx.close() and browser.close() have run
    playwright,   \* the sync_playwright() context: "none", "running", "stopped"
    serialized    \* every click so far was followed by a pause or an idle-wait

svars == <<options, weights_map, k, r, pick, remaining, selected, iter, spc>>
bvars == <<OPTS, WEIGHTS, bpc, built, builds>>
fvars == <<filler, block, choices, rows_to_values, buttons, matrix, columns,
           events, error, calls, mark>>

rvars == <<answers, rpc, log, state, closed, playwright, serialized>>

vars == <<svars, free, bvars, fvars, rvars>>

(***************************************************************************)
(* Bounds of the model.                                                    *)
(***************************************************************************)
MaxLen == 3
Grid == 16
Pinned == 0
MaxChoices == 2
MaxApplications == 2
MaxRows == 5
MaxCols == 3
MaxItems == 1
MaxBuilds == 2

Labels == {"A", "B", "C"}
WeightValues == {-1, 0, 1, 2}
NoLabel == "none"

Max(a, b) == IF a >= b THEN a ELSE b
Min(a, b) == IF a <= b THEN a ELSE b

Range(s) == {s[i] : i \in 1..Len(s)}

SeqsUpTo(S, n) == UNION {[1..m -> S] : m \in 0..n}

\* every dict {label: weight} over a subset of the labels
WeightMaps == UNION {[D -> WeightValues] : D \in SUBSET Labels}

\* the weight maps of the sampling calls: weights 0 and 1, or no entry
SampleWeightMaps == UNION {[D -> {0, 1}] : D \in SUBSET Labels}

\* the values random.random() can take: j / Grid, 0 included, 1 excluded
Draws == 0..(Grid - 1)

\* The random source.  Every draw made while computing the field named by
\* `free` ranges over Draws; a draw made for another field is Pinned / Grid.
\* free = "all" leaves every draw free.
DrawSet(field) == IF free = "all" \/ free = field THEN Draws ELSE {Pinned}

(***************************************************************************)
(* Python helpers.                                                         *)
(***************************************************************************)
\* dict.get(key, 0.0)
Get(d, key) == IF key \in DOMAIN d THEN d[key] ELSE 0

RECURSIVE DictKeys(_)
\* the keys of {opt: ... for opt in opts}, in insertion order: a repeated key
\* keeps its first position
DictKeys(opts) ==
    IF opts = <<>> THEN <<>>
    ELSE LET front == DictKeys(SubSeq(opts, 1, Len(opts) - 1))
             last  == opts[Len(opts)]
         IN IF last \in Range(front) THEN front ELSE Append(front, last)

RECURSIVE SumWeights(_)
SumWeights(items) ==
    IF items = <<>> THEN 0 ELSE items[1][2] + SumWeights(Tail(items))

\* list.remove(x): drops the first occurrence of x
ListRemove(s, x) ==
    LET i == CHOOSE j \in 1..Len(s) : s[j] = x /\ \A h \in 1..(j - 1) : s[h] # x
    IN SubSeq(s, 1, i - 1) \o SubSeq(s, i + 1, Len(s))

(***************************************************************************)
(* _normalize: items is the dict as a sequence of <<key, weight>>; the     *)
(* result pairs each key with its probability <<numerator, denominator>>.  *)
(***************************************************************************)
NormalizeNoFallback(items) ==
    LET clipped == [i \in 1..Len(items) |-> <<items[i][1], Max(0, items[i][2])>>]
        s == SumWeights(clipped)
    IN [i \in 1..Len(items) |-> <<clipped[i][1], <<clipped[i][2], Max(s, 1)>>>>]

_normalize(items) ==
    LET clipped == [i \in 1..Len(items) |-> <<items[i][1], Max(0, items[i][2])>>]
        s == SumWeights(clipped)
        n == Len(clipped)
    IN IF s <= 0
       THEN [i \in 1..n |-> <<clipped[i][1], <<1, n>>>>]
       ELSE [i \in 1..n |-> <<clipped[i][1], <<clipped[i][2], s>>>>]

(***************************************************************************)
(* weighted_choice: the loop `acc += p; if r <= acc: return choice`, then  *)
(* the fall-through `return choices[-1]`.  draw is the numerator of r.     *)
(***************************************************************************)
RECURSIVE ChoiceLoop(_, _, _, _)
ChoiceLoop(items, i, acc, draw) ==
    IF i > Len(items) THEN items[Len(items)][1]
    ELSE LET p    == items[i][2]
             acc2 == acc + p[1]
         IN IF draw * p[2] <= acc2 * Grid
            THEN items[i][1]
            ELSE ChoiceLoop(items, i + 1, acc2, draw)

WeightedDict(opts, wmap) ==
    LET keys == DictKeys(opts)
    IN [i \in 1..Len(keys) |-> <<keys[i], Get(wmap, keys[i])>>]

weighted_choice(opts, wmap, draw) ==
    ChoiceLoop(_normalize(WeightedDict(opts, wmap)), 1, 0, draw)

(***************************************************************************)
(* The page as the fillers see it.  A question block is a record           *)
(*   found   : _section_by_title matched a listitem (cont.count() > 0)     *)
(*   loc     : per label, the locators that match a control: "both" (the   *)
(*             role+label locator and the text locator), "role", "text",   *)
(*             or "none" (neither: the click waits and times out)          *)
(*   checked : per label, the option's aria-checked state                  *)
(*   idle    : the page reaches networkidle within wait_idle's timeout.    *)
(* An element found by text is the label's text node: it carries no        *)
(* aria-checked attribute, and a click on it toggles its option.           *)
(* A page interaction is a record [op, what, via, row, col, was].          *)
(***************************************************************************)
Ev(op, what, via, row, col, was) ==
    [op |-> op, what |-> what, via |-> via, row |-> row, col |-> col, was |-> was]

\* wait_for_load_state raising on its timeout
wait_idle_raising(idle) ==
    [event |-> Ev("wait_idle", IF idle THEN "idle" ELSE "timeout", "", -1, -1, FALSE),
     error |-> IF idle THEN "ok" ELSE "Timeout"]

\* lines 34-38: the wait ends when the page is idle or at the timeout, whose
\* exception is swallowed
wait_idle(idle) ==
    [event |-> Ev("wait_idle", IF idle THEN "idle" ELSE "timeout", "", -1, -1, FALSE),
     error |-> "ok"]

\* the interactions evs followed by wait_idle(page)
Waited(evs, idle) ==
    [events |-> Append(evs, wait_idle(idle).event), error |-> wait_idle(idle).error]

\* time.sleep left out
SleepSkipped == Ev("skip", "", "", -1, -1, FALSE)

\* time.sleep(0.2), time.sleep(0.12)
Sleep == Ev("sleep", "", "", -1, -1, FALSE)

Blocks ==
    [found : BOOLEAN, loc : [Labels -> {"both", "role", "text", "none"}],
     checked : [Labels -> BOOLEAN], idle : BOOLEAN]

NoBlock ==
    [found |-> FALSE, loc |-> [l \in Labels |-> "none"],
     checked |-> [l \in Labels |-> FALSE], idle |-> TRUE]

Result(b, evs, err) == [block |-> b, events |-> evs, error |-> err]

Clicks(evs) == SelectSeq(evs, LAMBDA e : e.op = "click")

\* cont.get_by_role(..., name=label).count() > 0, cont.get_by_text(label).count() > 0
ByRole(b, label) == b.loc[label] \in {"both", "role"}
ByText(b, label) == b.loc[label] \in {"both", "text"}

\* the fallback chain with the text locator tried first
LocateTextFirst(b, label) ==
    IF ByText(b, label) THEN "text" ELSE IF ByRole(b, label) THEN "role" ELSE "none"

\* lines 63-65 and 74-76: the role+label locator, replaced by the text
\* locator when it matches nothing; "none" when the text locator matches
\* nothing either
Locate(b, label) ==
    IF ByRole(b, label) THEN "role" ELSE IF ByText(b, label) THEN "text" ELSE "none"

\* select_radio without the test of cont.count()
select_radio_unguarded(b, choice_text) ==
    LET via == Locate(b, choice_text)
        w   == Waited(<<Ev("click", choice_text, via, -1, -1, b.checked[choice_text])>>, b.idle)
    IN IF via = "none" THEN Result(b, <<>>, "Timeout")
       ELSE Result([b EXCEPT !.checked = [l \in Labels |-> l = choice_text]], w.events, w.error)

\* select_radio clicking the control twice
select_radio_twice(b, choice_text) ==
    LET via == Locate(b, choice_text)
        w   == Waited(<<Ev("click", choice_text, via, -1, -1, b.checked[choice_text]),
                        Ev("click", choice_text, via, -1, -1, TRUE)>>, b.idle)
    IN IF ~b.found THEN Result(b, <<>>, "NotFound")
       ELSE IF via = "none" THEN Result(b, <<>>, "Timeout")
       ELSE Result([b EXCEPT !.checked = [l \in Labels |-> l = choice_text]], w.events, w.error)

\* lines 59-67
select_radio(b, choice_text) ==
    IF ~b.found THEN Result(b, <<>>, "NotFound")
    ELSE LET via == Locate(b, choice_text)
             w   == Waited(<<Ev("click", choice_text, via, -1, -1, b.checked[choice_text])>>,
                           b.idle)
         IN IF via = "none"
            THEN Result(b, <<>>, "Timeout")   \* radio.first.click() finds no element
            ELSE Result([b EXCEPT !.checked = [l \in Labels |-> l = choice_text]],
                        w.events, w.error)

\* lines 77-81: already = (cb.first.get_attribute("aria-checked") == "true"),
\* False when the read raises
Already(b, choice) ==
    IF Locate(b, choice) = "role" THEN b.checked[choice] ELSE FALSE

RECURSIVE CheckboxLoop(_, _, _, _)
\* lines 73-84, from the i-th choice on
CheckboxLoop(b, chs, i, evs) ==
    IF i > Len(chs)
    THEN Result(b, Waited(evs, b.idle).events, Waited(evs, b.idle).error)   \* line 85
    ELSE LET choice == chs[i]
             via    == Locate(b, choice)
         IN IF Already(b, choice) THEN CheckboxLoop(b, chs, i + 1, evs)
            ELSE IF via = "none" THEN Result(b, evs, "Timeout")     \* line 83 raises
            ELSE CheckboxLoop(
                    [b EXCEPT !.checked[choice] = ~b.checked[choice]], chs, i + 1,
                    evs \o <<Ev("click", choice, via, -1, -1, b.checked[choice]), Sleep>>)

\* lines 69-85
select_checkboxes(b, chs) ==
    IF ~b.found THEN Result(b, <<>>, "NotFound")
    ELSE CheckboxLoop(b, chs, 1, <<>>)

(***************************************************************************)
(* A rating matrix block is a record                                       *)
(*   found  : the block was located (a block that is not has no rows)     *)
(*   rows   : the number of radiogroup rows                                *)
(*   cols   : the number of radios of row 0 (and of every row)             *)
(*   failAt : the 1-based row whose scroll or click exceeds its timeout,   *)
(*            0 when none does                                             *)
(*   idle   : the page reaches networkidle within wait_idle's timeout.     *)
(***************************************************************************)
Matrices ==
    {m \in [found : BOOLEAN, rows : 0..MaxRows, cols : 0..MaxCols, failAt : 0..MaxRows,
            idle : BOOLEAN] :
        /\ m.failAt <= m.rows
        /\ ~m.found => (m.rows = 0 /\ m.cols = 0)}

NoMatrix == [found |-> FALSE, rows |-> 0, cols |-> 0, failAt |-> 0, idle |-> TRUE]

\* the results random.shuffle(list(range(n))) can leave: columns[j + 1] is the
\* Python columns[j]
Shuffles(n) ==
    {p \in [1..n -> 0..(n - 1)] : \A i, j \in 1..n : i # j => p[i] # p[j]}

\* line 109 with a clamp in place of the modulo
ColumnIndexClamped(cols, i, col_count) == cols[Min(i, col_count - 1) + 1]

\* line 109: col_index = columns[i % col_count]
ColumnIndex(cols, i, col_count) == cols[(i % col_count) + 1]

RECURSIVE PermutationLoop(_, _, _, _)
\* lines 108-114, from row i (0-based) on
PermutationLoop(m, cols, i, evs) ==
    IF i >= m.rows THEN Waited(evs, m.idle)                                  \* line 116
    ELSE IF m.failAt = i + 1 THEN [events |-> evs, error |-> "Timeout"]
    ELSE PermutationLoop(m, cols, i + 1,
            evs \o <<Ev("scroll", "row", "", i, -1, FALSE),
                     Ev("click", "radio", "role", i, ColumnIndex(cols, i, m.cols), FALSE),
                     Sleep>>)

\* the call with the column test placed before the row test
select_permutation_columns_first(m, cols) ==
    IF ~m.found THEN [events |-> <<>>, error |-> "NotFound"]
    ELSE IF m.cols = 0 THEN [events |-> <<>>, error |-> "NoColumns"]
    ELSE IF m.rows = 0 THEN [events |-> <<>>, error |-> "NoRows"]
    ELSE PermutationLoop(m, cols, 0, <<>>)

\* lines 91-116; cols is what random.shuffle left in columns
select_linear_scale_permutation(m, cols) ==
    IF ~m.found THEN [events |-> <<>>, error |-> "NotFound"]
    ELSE IF m.rows = 0 THEN [events |-> <<>>, error |-> "NoRows"]
    ELSE IF m.cols = 0 THEN [events |-> <<>>, error |-> "NoColumns"]
    ELSE PermutationLoop(m, cols, 0, <<>>)

\* an item of rows_to_values: the row its label names and the value.  Row
\* 0..rows-1 is a radiogroup of the matrix holding the label; row -1 is a
\* label that no radiogroup holds but a plain div of the block does (the
\* div holds every radio of the block); any other row is a label that is
\* not on the page.
ItemRows == {-1, 0, 1, 2}
RowValues == ItemRows \X ((-1)..(MaxCols + 1))

\* lines 124-130: the element the row locator resolves to
RowVia(m, row) ==
    IF row \in 0..(m.rows - 1) THEN "radiogroup"
    ELSE IF row = -1 THEN "div"
    ELSE "none"

\* line 134: col_count = radios.count() in the resolved element
RadioCount(m, row) == IF RowVia(m, row) = "radiogroup" THEN m.cols ELSE m.rows * m.cols

\* line 135 without the lower clamp
ClampIndexUpperOnly(value, col_count) == Min(value - 1, col_count - 1)

\* line 135: idx = max(0, min(value - 1, col_count - 1))
ClampIndex(value, col_count) == Max(0, Min(value - 1, col_count - 1))

RECURSIVE FromDictLoop(_, _, _, _)
\* lines 123-137, from the j-th item on
FromDictLoop(m, rtv, j, evs) ==
    IF j > Len(rtv) THEN Waited(evs, m.idle)                                \* line 139
    ELSE LET row       == rtv[j][1]
             value     == rtv[j][2]
             via       == RowVia(m, row)
             col_count == RadioCount(m, row)
             idx       == ClampIndex(value, col_count)
         IN IF via = "none" \/ (via = "radiogroup" /\ m.failAt = row + 1)
            THEN [events |-> evs, error |-> "Timeout"]                      \* line 131
            ELSE IF col_count = 0
            THEN [events |-> Append(evs, Ev("scroll", "row", via, row, -1, FALSE)),
                  error |-> "Timeout"]                                      \* line 136
            ELSE FromDictLoop(m, rtv, j + 1,
                    evs \o <<Ev("scroll", "row", via, row, -1, FALSE),
                             Ev("click", "radio", via, row, idx, FALSE),
                             Sleep>>)

\* lines 118-139
select_linear_scale_from_dict(m, rtv) ==
    IF ~m.found THEN [events |-> <<>>, error |-> "NotFound"]
    ELSE FromDictLoop(m, rtv, 1, <<>>)

\* the page as click_next and click_submit see it: the names of its buttons
\* and whether it reaches networkidle within wait_idle's timeout
ButtonNames == {"Siguiente", "Next", "Enviar", "Submit"}
ButtonPages == [buttons : SUBSET ButtonNames, idle : BOOLEAN]
NoButtons == [buttons |-> {}, idle |-> TRUE]

\* lines 40-45 and 47-52: the button is looked up by name, then by its
\* English name; buttons is the set of button names on the page
ClickButton(p, name, fallback) ==
    LET used == IF name \in p.buttons THEN name ELSE fallback
    IN IF used \in p.buttons
       THEN Waited(<<Ev("click", used, "role", -1, -1, FALSE)>>, p.idle)
       ELSE [events |-> <<>>, error |-> "Timeout"]

click_next(p) == ClickButton(p, "Siguiente", "Next")
click_submit(p) == ClickButton(p, "Enviar", "Submit")

RunIdle ==
    /\ answers = <<>>
    /\ rpc = "idle"
    /\ log = <<>>
    /\ state = "none"
    /\ closed = FALSE
    /\ playwright = "none"
    /\ serialized = TRUE

FillersIdle ==
    /\ filler = "none"
    /\ block = NoBlock
    /\ choices = <<>>
    /\ rows_to_values = <<>>
    /\ buttons = NoButtons
    /\ matrix = NoMatrix
    /\ columns = <<>>
    /\ events = <<>>
    /\ error = "ok"
    /\ calls = 0
    /\ mark = 0

(***************************************************************************)
(* The catalog OPTS and the weight tables WEIGHTS (weights in hundredths). *)
(***************************************************************************)
Ninguno == "Ninguno"
NoVirtualiza == "No uso virtualizacion"

InitialOPTS ==
    [semestre |-> <<"1 - 3", "4 - 5", "6 - 9", "10 - 15", "Egresado / Profesional">>,
     herramientas |-> <<"Packet Tracer", "GNS3", "EVE-NG", "Wireshark", "Snort",
                        "Matlab", Ninguno>>,
     so_virtualizados_main |-> <<"Ubuntu LTS (Desktop/Server)", "Debian", "Kali Linux",
                                 "Windows Server 2019/2022", "pfSense (firewall/router)">>,
     impedimentos_main |-> <<"Bajo rendimiento del equipo", "Sistema operativo/version no compatible",
                             "Drivers o dependencias faltantes",
                             "Virtualizacion/Docker/WSL no funcionan",
                             "Restricciones de red/seguridad">>,
     tipo_equipo |-> <<"Laptop (Portatil)", "Computadora de escritorio (Desktop)">>,
     cpu |-> <<"Intel", "AMD", "Apple (Serie M)">>,
     ram |-> <<"4GB o menos", "8 GB", "16 GB", "32 GB o mas">>,
     tipo_almacenamiento |-> <<"Disco de Estado Solido (SSD)", "Disco duro Mecanico (HDD)",
                               "Hibrido (SSD + HDD)">>,
     capacidad |-> <<"256 GB o menos", "512 GB", "1 TB", "Mas de 1 TB">>,
     gpu |-> <<"Integrados", "Dedicados">>,
     preferencia |-> <<"Servicios en la nube", "Computadora personal">>]

\* a dict literal {key: weight, ...} given as a sequence of pairs
DictOf(pairs) ==
    [key \in {pairs[i][1] : i \in 1..Len(pairs)} |->
        (CHOOSE pr \in Range(pairs) : pr[1] = key)[2]]

InitialWEIGHTS ==
    [semestre |-> DictOf(<< <<"6 - 9", 60>>, <<"10 - 15", 18>>, <<"1 - 3", 10>>,
                            <<"4 - 5", 8>>, <<"Egresado / Profesional", 4>> >>),
     herramientas |-> DictOf(<< <<"Matlab", 35>>, <<"Packet Tracer", 23>>, <<"Wireshark", 19>>,
                                <<"GNS3", 4>>, <<"Snort", 4>>, <<"EVE-NG", 2>>,
                                <<Ninguno, 3>> >>),
     so_virtualizados_main |-> DictOf(<< <<"Ubuntu LTS (Desktop/Server)", 35>>,
                                <<"Kali Linux", 25>>, <<"Debian", 15>>,
                                <<"Windows Server 2019/2022", 20>>,
                                <<"pfSense (firewall/router)", 5>> >>),
     impedimentos_main |-> DictOf(<< <<"Bajo rendimiento del equipo", 35>>,
                                <<"Sistema operativo/version no compatible", 20>>,
                                <<"Drivers o dependencias faltantes", 25>>,
                                <<"Virtualizacion/Docker/WSL no funcionan", 10>>,
                                <<"Restricciones de red/seguridad", 10>> >>),
     tipo_equipo |-> DictOf(<< <<"Laptop (Portatil)", 80>>,
                               <<"Computadora de escritorio (Desktop)", 20>> >>),
     cpu |-> DictOf(<< <<"Intel", 75>>, <<"AMD", 18>>, <<"Apple (Serie M)", 7>> >>),
     ram |-> DictOf(<< <<"4GB o menos", 15>>, <<"8 GB", 40>>, <<"16 GB", 35>>,
                       <<"32 GB o mas", 10>> >>),
     tipo_almacenamiento |-> DictOf(<< <<"Disco de Estado Solido (SSD)", 80>>,
                                       <<"Disco duro Mecanico (HDD)", 15>>,
                                       <<"Hibrido (SSD + HDD)", 5>> >>),
     capacidad |-> DictOf(<< <<"256 GB o menos", 25>>, <<"512 GB", 35>>, <<"1 TB", 30>>,
                             <<"Mas de 1 TB", 10>> >>),
     gpu |-> DictOf(<< <<"Integrados", 70>>, <<"Dedicados", 30>> >>),
     preferencia |-> DictOf(<< <<"Servicios en la nube", 60>>,
                               <<"Computadora personal", 40>> >>)]

\* P_NO_VIRTUALIZA = 0.18, and the default of .get("Ninguno", 0.03), in hundredths
P_NO_VIRTUALIZA == 18
NingunoDefault == 3

\* the specifications that never read the catalogs leave them out of the state
BuildIdle ==
    /\ OPTS = <<>>
    /\ WEIGHTS = <<>>
    /\ bpc = "idle"
    /\ built = <<>>
    /\ builds = 0

(***************************************************************************)
(* Specification SpecChoice: one call of weighted_choice on inputs drawn   *)
(* from the bounded sets.                                                  *)
(***************************************************************************)
SamplingIdle ==
    /\ options = <<>>
    /\ weights_map = <<>>
    /\ k = 0
    /\ r = -1
    /\ pick = NoLabel
    /\ remaining = <<>>
    /\ selected = <<>>
    /\ iter = 0
    /\ spc = "idle"

InitChoice ==
    /\ options \in SeqsUpTo(Labels, MaxLen) \ {<<>>}
    /\ weights_map \in WeightMaps
    /\ k = 0
    /\ r = -1
    /\ pick = NoLabel
    /\ remaining = <<>>
    /\ selected = <<>>
    /\ iter = 0
    /\ spc = "call"
    /\ free = "all"
    /\ BuildIdle
    /\ FillersIdle
    /\ RunIdle

WeightedChoiceCall ==
    /\ spc = "call"
    /\ \E draw \in DrawSet("weighted_choice") :
          /\ r' = draw
          /\ pick' = weighted_choice(options, weights_map, draw)
    /\ spc' = "returned"
    /\ UNCHANGED <<options, weights_map, k, remaining, selected, iter, free, bvars, fvars, rvars>>

NextChoice == WeightedChoiceCall

SpecChoice == InitChoice /\ [][NextChoice]_vars

\* C8: weighted_choice never returns an option of weight 0 when some
\* candidate has a positive weight, whatever the draw in [0,1) (0 included);
\* hence an option absent from the map is never chosen, and a single
\* positive candidate is always the one returned.
C8_NeverZeroWeight ==
    (spc = "returned" /\ \E o \in Range(options) : Get(weights_map, o) > 0)
        => Get(weights_map, pick) > 0

ZeroTotal == \A o \in Range(options) : Get(weights_map, o) <= 0

ClampK(kk, n) == Max(0, Min(kk, n))

\* the loop body without remaining.remove(pick)
SampleBodyNoRemove(rem, sel, wmap, draw) ==
    LET p == weighted_choice(rem, wmap, draw)
    IN [pick |-> p, selected |-> Append(sel, p), remaining |-> rem]

\* the loop body: pick = weighted_choice(remaining, weights_map);
\* selected.append(pick); remaining.remove(pick)
SampleBody(rem, sel, wmap, draw) ==
    LET p == weighted_choice(rem, wmap, draw)
    IN [pick |-> p, selected |-> Append(sel, p), remaining |-> ListRemove(rem, p)]

\* remaining = options: the loop works on the list of the caller, which is
\* the catalog list itself where build_prob_answers passes one
SharedWithoutCopy(site) ==
    IF site = "so_virtualizados" THEN "so_virtualizados_main"
    ELSE IF site = "impedimentos" THEN "impedimentos_main"
    ELSE "options"

\* line 234: remaining = list(options) is a new list, which shares its
\* storage with no other: neither with options ("options") nor with a
\* catalog list (its key in OPTS)
SharedWith(site) == "none"

InitSample ==
    /\ options \in SeqsUpTo(Labels, MaxLen)
    /\ weights_map \in SampleWeightMaps
    /\ k \in (-1)..(MaxLen + 1)
    /\ r = -1
    /\ pick = NoLabel
    /\ remaining = <<>>
    /\ selected = <<>>
    /\ iter = 0
    /\ spc = "call"
    /\ free = "all"
    /\ BuildIdle
    /\ FillersIdle
    /\ RunIdle

\* lines 233-235
SampleEnter ==
    /\ spc = "call"
    /\ iter' = ClampK(k, Len(options))
    /\ remaining' = options
    /\ selected' = <<>>
    /\ spc' = "loop"
    /\ UNCHANGED <<options, weights_map, k, r, pick, free, bvars, fvars, rvars>>

\* lines 236-241: one iteration of `for _ in range(k)`
SampleIter ==
    /\ spc = "loop"
    /\ iter > 0
    /\ remaining # <<>>
    /\ \E draw \in DrawSet(bpc) :
          LET res == SampleBody(remaining, selected, weights_map, draw)
          IN /\ pick' = res.pick
             /\ selected' = res.selected
             /\ remaining' = res.remaining
    /\ iter' = iter - 1
    /\ options' = (IF SharedWith(bpc) = "none" THEN options ELSE remaining')
    /\ OPTS' = (IF SharedWith(bpc) \in DOMAIN OPTS
                THEN [OPTS EXCEPT ![SharedWith(bpc)] = remaining']
                ELSE OPTS)
    /\ UNCHANGED <<weights_map, k, r, spc, free, WEIGHTS, bpc, built, builds, fvars, rvars>>

\* lines 237-238 and 242: the loop ends (range exhausted, or the break on an
\* empty pool) and selected is returned
SampleReturn ==
    /\ spc = "loop"
    /\ (iter <= 0 \/ remaining = <<>>)
    /\ spc' = "returned"
    /\ UNCHANGED <<options, weights_map, k, r, pick, remaining, selected, iter, free, bvars, fvars, rvars>>

NextSample == SampleEnter \/ SampleIter \/ SampleReturn

SpecSample == InitSample /\ [][NextSample]_vars

Count(s, x) == Cardinality({i \in 1..Len(s) : s[i] = x})

\* C7 as stated: exactly min(max(k,0), |options|) elements, each an element
\* of options, pairwise distinct, for every option sequence.
C7_Original ==
    spc = "returned" =>
        /\ Len(selected) = Min(Max(k, 0), Len(options))
        /\ \A i \in 1..Len(selected) : selected[i] \in Range(options)
        /\ \A i, j \in 1..Len(selected) : i # j => selected[i] # selected[j]

\* C7 amended: exactly min(max(k,0), |options|) elements, each an element of
\* options and none returned more often than it occurs in options; so the
\* elements are pairwise distinct when options has no repeated element.
C7_SampleSize ==
    spc = "returned" =>
        /\ Len(selected) = Min(Max(k, 0), Len(options))
        /\ \A i \in 1..Len(selected) : selected[i] \in Range(options)
        /\ \A x \in Labels : Count(selected, x) <= Count(options, x)
        /\ (\A x \in Labels : Count(options, x) <= 1) =>
              \A i, j \in 1..Len(selected) : i # j => selected[i] # selected[j]

\* a call with two picks out of three distinct options
C7_Witness ==
    /\ spc = "returned"
    /\ Len(options) = 3
    /\ Cardinality(Range(options)) = 3
    /\ k = 2
    /\ Len(selected) = 2

(***************************************************************************)
(* random_k_for_checkbox(min_k, max_k) = int(round(random.triangular(      *)
(* min_k, max_k, min_k))) for the draw u = draw / Grid.  With mode = low,  *)
(* c = 0: u = 0 gives low; u > 0 gives v = max_k - (max_k - min_k) *       *)
(* sqrt(1 - u), compared with the half-integers through its square.        *)
(* round() rounds a tie to the even neighbour.                             *)
(***************************************************************************)
random_k_for_checkbox(min_k, max_k, draw) ==
    IF max_k = min_k THEN min_k            \* ZeroDivisionError: return low
    ELSE IF draw = 0 THEN min_k            \* u > c is false
    ELSE LET d2 == 4 * (max_k - min_k) * (max_k - min_k) * (Grid - draw)
             \* the least t with (max_k - min_k) * sqrt(1 - u) <= t + 1/2
             t  == CHOOSE t \in 0..(max_k - min_k) :
                      /\ d2 <= (2 * t + 1) * (2 * t + 1) * Grid
                      /\ \A h \in 0..(t - 1) : d2 > (2 * h + 1) * (2 * h + 1) * Grid
         IN IF d2 = (2 * t + 1) * (2 * t + 1) * Grid
            THEN (IF (max_k - t) % 2 = 0 THEN max_k - t ELSE max_k - t - 1)
            ELSE max_k - t

(***************************************************************************)
(* build_prob_answers, one statement per step; the calls of                *)
(* weighted_sample_unique run through SampleEnter, SampleIter and          *)
(* SampleReturn.  built holds the local variables and dict entries         *)
(* assigned so far.                                                        *)
(***************************************************************************)
SingleSelect == <<"semestre", "tipo_equipo", "cpu", "ram", "tipo_almacenamiento",
                  "capacidad_almacenamiento", "gpu", "preferencia">>
MultiSelect == <<"herramientas", "so_virtualizados", "impedimentos">>

\* the statements of build_prob_answers in program order
BuildOrder == <<"semestre", "herramientas", "so_virtualizados", "impedimentos",
                "tipo_equipo", "cpu", "ram", "tipo_almacenamiento",
                "capacidad_almacenamiento", "gpu", "preferencia", "return">>

NextStatement(st) ==
    LET i == CHOOSE j \in 1..Len(BuildOrder) : BuildOrder[j] = st
    IN BuildOrder[i + 1]

\* the catalog entry each single-select field is drawn from
CatalogOf(field) ==
    IF field = "capacidad_almacenamiento" THEN "capacidad" ELSE field

Assign(f, key, val) == [x \in DOMAIN f \cup {key} |-> IF x = key THEN val ELSE f[x]]

FilterSeq(s, x) == SelectSeq(s, LAMBDA e : e # x)

\* line 258 without the exclusion of "Ninguno"
HerramientasPoolAll == OPTS.herramientas

\* line 258: pool = [h for h in OPTS["herramientas"] if h != "Ninguno"]
HerramientasPool == FilterSeq(OPTS.herramientas, Ninguno)

InitBuild ==
    /\ SamplingIdle
    /\ free \in Range(BuildOrder) \ {"return"}
    /\ OPTS = InitialOPTS
    /\ WEIGHTS = InitialWEIGHTS
    /\ bpc = "semestre"
    /\ built = <<>>
    /\ builds = 0
    /\ FillersIdle
    /\ RunIdle

\* lines 253, 282-287, 292-294: field = weighted_choice(OPTS[..], WEIGHTS[..]);
\* the page3 literal also sets the two permutation flags
BuildSingle ==
    /\ bpc \in Range(SingleSelect)
    /\ spc = "idle"
    /\ \E draw \in DrawSet(bpc) :
          LET val == weighted_choice(OPTS[CatalogOf(bpc)], WEIGHTS[CatalogOf(bpc)], draw)
          IN built' = IF bpc = "preferencia"
                      THEN Assign(Assign(Assign(built, bpc, val),
                                         "beneficios_permutar", TRUE),
                                  "preocupaciones_permutar", TRUE)
                      ELSE Assign(built, bpc, val)
    /\ bpc' = NextStatement(bpc)
    /\ UNCHANGED <<svars, free, OPTS, WEIGHTS, builds, fvars, rvars>>

\* the call weighted_sample_unique(pool, wmap, kk)
CallSample(pool, wmap, kk) ==
    /\ options' = pool
    /\ weights_map' = wmap
    /\ k' = kk
    /\ spc' = "call"
    /\ UNCHANGED <<r, pick, remaining, selected, iter>>

\* lines 255-260
BuildHerramientas ==
    /\ bpc = "herramientas"
    /\ spc = "idle"
    /\ \E draw \in DrawSet(bpc) :
          IF draw * 100 < (IF Ninguno \in DOMAIN WEIGHTS.herramientas
                           THEN WEIGHTS.herramientas[Ninguno] ELSE NingunoDefault) * Grid
          THEN /\ built' = Assign(built, bpc, <<Ninguno>>)
               /\ bpc' = NextStatement(bpc)
               /\ UNCHANGED svars
          ELSE /\ \E u \in DrawSet(bpc) :
                     CallSample(HerramientasPool, WEIGHTS.herramientas,
                                random_k_for_checkbox(2, Min(4, Len(HerramientasPool)), u))
               /\ UNCHANGED <<bpc, built>>
    /\ UNCHANGED <<free, OPTS, WEIGHTS, builds, fvars, rvars>>

\* lines 262-267
BuildSoVirtualizados ==
    /\ bpc = "so_virtualizados"
    /\ spc = "idle"
    /\ \E draw \in DrawSet(bpc) :
          IF draw * 100 < P_NO_VIRTUALIZA * Grid
          THEN /\ built' = Assign(built, bpc, <<NoVirtualiza>>)
               /\ bpc' = NextStatement(bpc)
               /\ UNCHANGED svars
          ELSE /\ \E u \in DrawSet(bpc) :
                     CallSample(OPTS.so_virtualizados_main, WEIGHTS.so_virtualizados_main,
                                random_k_for_checkbox(2, Min(3, Len(OPTS.so_virtualizados_main)), u))
               /\ UNCHANGED <<bpc, built>>
    /\ UNCHANGED <<free, OPTS, WEIGHTS, builds, fvars, rvars>>

\* lines 269-271
BuildImpedimentos ==
    /\ bpc = "impedimentos"
    /\ spc = "idle"
    /\ \E u \in DrawSet(bpc) :
          CallSample(OPTS.impedimentos_main, WEIGHTS.impedimentos_main,
                     random_k_for_checkbox(2, Min(3, Len(OPTS.impedimentos_main)), u))
    /\ UNCHANGED <<free, bvars, fvars, rvars>>

\* lines 260, 267, 271: the value weighted_sample_unique returned is assigned
BuildSampleReturned ==
    /\ bpc \in Range(MultiSelect)
    /\ spc = "returned"
    /\ built' = Assign(built, bpc, selected)
    /\ bpc' = NextStatement(bpc)
    /\ spc' = "idle"
    /\ UNCHANGED <<options, weights_map, k, r, pick, remaining, selected, iter,
                   free, OPTS, WEIGHTS, builds, fvars, rvars>>

\* line 297
BuildReturn ==
    /\ bpc = "return"
    /\ bpc' = "done"
    /\ builds' = builds + 1
    /\ UNCHANGED <<svars, free, OPTS, WEIGHTS, built, fvars, rvars>>

\* build_prob_answers is called again: the locals of the previous call are
\* gone, the module-level catalogs are what that call left
BuildAgain ==
    /\ bpc = "done"
    /\ builds < MaxBuilds
    /\ bpc' = "semestre"
    /\ built' = <<>>
    /\ options' = <<>>
    /\ weights_map' = <<>>
    /\ k' = 0
    /\ r' = -1
    /\ pick' = NoLabel
    /\ remaining' = <<>>
    /\ selected' = <<>>
    /\ iter' = 0
    /\ spc' = "idle"
    /\ UNCHANGED <<free, OPTS, WEIGHTS, builds, fvars, rvars>>

NextBuild ==
    \/ BuildSingle
    \/ BuildHerramientas
    \/ BuildSoVirtualizados
    \/ BuildImpedimentos
    \/ SampleEnter
    \/ SampleIter
    \/ SampleReturn
    \/ BuildSampleReturned
    \/ BuildReturn
    \/ BuildAgain

SpecBuild == InitBuild /\ [][NextBuild]_vars

\* the document build_prob_answers returns
Page1Keys == {"semestre", "herramientas", "so_virtualizados", "impedimentos"}
Page2Keys == {"tipo_equipo", "cpu", "ram", "tipo_almacenamiento",
              "capacidad_almacenamiento", "gpu"}
Page3Keys == {"preferencia", "beneficios_permutar", "preocupaciones_permutar"}

Returned ==
    [page1 |-> [x \in Page1Keys |-> built[x]],
     page2 |-> [x \in Page2Keys |-> built[x]],
     page3 |-> [x \in Page3Keys |-> built[x]]]

Distinct(s) == \A i, j \in 1..Len(s) : i # j => s[i] # s[j]

\* C10: in every document build_prob_answers returns, herramientas is exactly
\* <<"Ninguno">> or 2 to 4 distinct catalog tools other than "Ninguno",
\* so_virtualizados is exactly <<"No uso virtualizacion">> or 2 to 3 distinct
\* catalog entries, impedimentos is 2 to 3 distinct catalog entries, and every
\* single-select value is a label of its question's catalog.
C10_BuiltAnswersShape ==
    bpc = "done" =>
        LET d == Returned
            h == d.page1.herramientas
            v == d.page1.so_virtualizados
            m == d.page1.impedimentos
        IN /\ \/ h = <<Ninguno>>
              \/ /\ Len(h) \in 2..4
                 /\ Distinct(h)
                 /\ Range(h) \subseteq Range(InitialOPTS.herramientas) \ {Ninguno}
           /\ \/ v = <<NoVirtualiza>>
              \/ /\ Len(v) \in 2..3
                 /\ Distinct(v)
                 /\ Range(v) \subseteq Range(InitialOPTS.so_virtualizados_main)
           /\ Len(m) \in 2..3
           /\ Distinct(m)
           /\ Range(m) \subseteq Range(InitialOPTS.impedimentos_main)
           /\ d.page1.semestre \in Range(InitialOPTS.semestre)
           /\ \A x \in Page2Keys : d.page2[x] \in Range(InitialOPTS[CatalogOf(x)])
           /\ d.page3.preferencia \in Range(InitialOPTS.preferencia)

\* a returned document with four tools
C10_Witness ==
    /\ bpc = "done"
    /\ Len(built["herramientas"]) = 4
    /\ Len(built["impedimentos"]) = 2

(***************************************************************************)
(* Specification SpecCheckbox: select_checkboxes applied up to             *)
(* MaxApplications times in a row, with the same choices, to one block.    *)
(***************************************************************************)
InitCheckbox ==
    /\ SamplingIdle
    /\ RunIdle
    /\ free = "all"
    /\ BuildIdle
    /\ filler = "select_checkboxes"
    /\ block \in Blocks
    /\ choices \in SeqsUpTo(Labels, MaxChoices)
    /\ rows_to_values = <<>>
    /\ buttons = NoButtons
    /\ matrix = NoMatrix
    /\ columns = <<>>
    /\ events = <<>>
    /\ error = "ok"
    /\ calls = 0
    /\ mark = 0

ApplyCheckboxes ==
    /\ calls < MaxApplications
    /\ error = "ok"
    /\ LET res == select_checkboxes(block, choices)
       IN /\ block' = res.block
          /\ events' = events \o res.events
          /\ error' = res.error
    /\ mark' = Len(events)
    /\ calls' = calls + 1
    /\ UNCHANGED <<svars, free, bvars, filler, choices, rows_to_values, buttons, matrix,
                   columns, rvars>>

NextCheckbox == ApplyCheckboxes

SpecCheckbox == InitCheckbox /\ [][NextCheckbox]_vars

\* C5: select_checkboxes is idempotent whichever locator resolved the
\* control: it never clicks an option that is checked when it is examined, a
\* second application with the same choices (or a repeated label) adds no
\* click, and after a successful application every requested option is checked.
C5_Idempotent ==
    /\ \A i \in 1..Len(events) : events[i].op = "click" => ~events[i].was
    /\ (calls >= 2 /\ error = "ok") =>
          Clicks(SubSeq(events, mark + 1, Len(events))) = <<>>
    /\ (calls >= 1 /\ error = "ok") => \A c \in Range(choices) : block.checked[c]

(***************************************************************************)
(* Specification SpecMatrix: one call of select_linear_scale_permutation   *)
(* on a matrix drawn from the bounded set.                                 *)
(***************************************************************************)
InitMatrix ==
    /\ SamplingIdle
    /\ RunIdle
    /\ free = "all"
    /\ BuildIdle
    /\ filler = "select_linear_scale_permutation"
    /\ block = NoBlock
    /\ choices = <<>>
    /\ rows_to_values = <<>>
    /\ buttons = NoButtons
    /\ matrix \in Matrices
    /\ columns = <<>>
    /\ events = <<>>
    /\ error = "ok"
    /\ calls = 0
    /\ mark = 0

ApplyPermutation ==
    /\ calls = 0
    /\ \E cols \in Shuffles(matrix.cols) :
          LET res == select_linear_scale_permutation(matrix, cols)
          IN /\ columns' = (IF matrix.found /\ matrix.rows > 0 /\ matrix.cols > 0
                            THEN cols ELSE <<>>)
             /\ events' = events \o res.events
             /\ error' = res.error
    /\ mark' = Len(events)
    /\ calls' = calls + 1
    /\ UNCHANGED <<svars, free, bvars, filler, block, choices, rows_to_values, buttons,
                   matrix, rvars>>

NextMatrix == ApplyPermutation

SpecMatrix == InitMatrix /\ [][NextMatrix]_vars

\* C6: on a matrix with R >= 1 rows and C >= 1 columns a completed call clicks
\* exactly one radio in every row, row i getting column perm[i mod C] for one
\* permutation perm of 0..C-1; each complete block of C consecutive rows uses
\* every column once, and every column is used R div C or R div C + 1 times.
C6_PermutationCoverage ==
    (calls = 1 /\ error = "ok" /\ matrix.rows >= 1 /\ matrix.cols >= 1) =>
        LET cl == Clicks(events)
            R  == matrix.rows
            C  == matrix.cols
        IN /\ Len(cl) = R
           /\ columns \in Shuffles(C)
           /\ \A i \in 1..R : cl[i].row = i - 1 /\ cl[i].col = columns[((i - 1) % C) + 1]
           /\ \A b \in 0..((R \div C) - 1) :
                 {cl[b * C + j].col : j \in 1..C} = 0..(C - 1)
           /\ \A c \in 0..(C - 1) :
                 Cardinality({i \in 1..R : cl[i].col = c}) \in {R \div C, (R \div C) + 1}

\* a completed call on five rows of two columns
C6_Witness ==
    /\ calls = 1
    /\ error = "ok"
    /\ matrix.rows = 5
    /\ matrix.cols = 2
    /\ Len(Clicks(events)) = 5

(***************************************************************************)
(* run_bot.  An answer document is a record of three page mappings; a page *)
(* mapping is [extra, vals]: vals maps the keys run_bot reads that are     *)
(* present to the kind of their value, extra says the mapping holds other  *)
(* keys.  A missing page is the empty mapping (answers.get(page, {})).     *)
(* Kinds: "label" (a string), "list", "dict", and "true" / "false" for a   *)
(* truthy / falsy flag.                                                    *)
(***************************************************************************)
RadioKeys == {"semestre", "tipo_equipo", "cpu", "ram", "tipo_almacenamiento",
              "capacidad_almacenamiento", "gpu", "preferencia"}
CheckboxKeys == {"herramientas", "so_virtualizados", "impedimentos"}
MatrixKeys == {"beneficios", "preocupaciones"}
FlagOf(key) == IF key = "beneficios" THEN "beneficios_permutar" ELSE "preocupaciones_permutar"

KindsOf(key) ==
    IF key \in RadioKeys THEN {"label"}
    ELSE IF key \in CheckboxKeys THEN {"list", "label"}
    ELSE IF key \in MatrixKeys THEN {"dict", "label"}
    ELSE {"true", "false"}

PageMaps(keys) ==
    {pm \in [extra : BOOLEAN,
             vals  : UNION {[D -> {"label", "list", "dict", "true", "false"}] : D \in SUBSET keys}] :
        \A x \in DOMAIN pm.vals : pm.vals[x] \in KindsOf(x)}

ReadKeys ==
    [page1 |-> {"semestre", "herramientas", "so_virtualizados", "impedimentos"},
     page2 |-> {"tipo_equipo", "cpu", "ram", "tipo_almacenamiento",
                "capacidad_almacenamiento", "gpu"},
     page3 |-> {"preferencia", "beneficios_permutar", "beneficios",
                "preocupaciones_permutar", "preocupaciones"}]

\* the shape of a document build_prob_answers returns
GeneratedDoc ==
    [page1 |-> [extra |-> FALSE,
                vals  |-> [x \in ReadKeys.page1 |-> IF x \in CheckboxKeys THEN "list" ELSE "label"]],
     page2 |-> [extra |-> FALSE, vals |-> [x \in ReadKeys.page2 |-> "label"]],
     page3 |-> [extra |-> FALSE,
                vals  |-> [x \in Page3Keys |-> IF x = "preferencia" THEN "label" ELSE "true"]]]

\* the documents of the model: a generated document with any one page
\* replaced by an arbitrary page mapping
Docs ==
    UNION {{[GeneratedDoc EXCEPT ![pg] = pm] : pm \in PageMaps(ReadKeys[pg])} :
              pg \in {"page1", "page2", "page3"}}

\* `if p1:` -- a dict is truthy when it is not empty
Truthy(pm) == pm.extra \/ DOMAIN pm.vals # {}
Has(pm, key) == key \in DOMAIN pm.vals

\* the statements of run_bot in program order, with submit moved before the
\* second matrix
RunOrderSubmitEarly ==
    <<"launch", "semestre", "herramientas", "so_virtualizados", "impedimentos", "next1",
      "tipo_equipo", "cpu", "ram", "tipo_almacenamiento", "capacidad_almacenamiento",
      "gpu", "next2", "preferencia", "beneficios", "submit", "preocupaciones", "close">>

\* the statements of run_bot in program order, with the first advance moved
\* before the last page-1 field
RunOrderNextEarly ==
    <<"launch", "semestre", "herramientas", "so_virtualizados", "next1", "impedimentos",
      "tipo_equipo", "cpu", "ram", "tipo_almacenamiento", "capacidad_almacenamiento",
      "gpu", "next2", "preferencia", "beneficios", "preocupaciones", "submit", "close">>

\* the statements of run_bot in program order (lines 307-380)
RunOrder ==
    <<"launch", "semestre", "herramientas", "so_virtualizados", "impedimentos", "next1",
      "tipo_equipo", "cpu", "ram", "tipo_almacenamiento", "capacidad_almacenamiento",
      "gpu", "next2", "preferencia", "beneficios", "preocupaciones", "submit", "close">>

NextSite(site) ==
    LET i == CHOOSE j \in 1..Len(RunOrder) : RunOrder[j] = site
    IN IF i = Len(RunOrder) THEN "done" ELSE RunOrder[i + 1]

PageOf(key) ==
    IF key \in ReadKeys.page1 THEN "page1"
    ELSE IF key \in ReadKeys.page2 THEN "page2"
    ELSE "page3"

\* the filler call without the test of the key's presence
SelectFillerUnguarded(doc, key) ==
    IF key \in RadioKeys THEN "select_radio" ELSE "select_checkboxes"

\* lines 316-327, 333-350, 356-358: the filler a single- or multi-select
\* statement calls, "none" when its conditions fail
SelectFiller(doc, key) ==
    LET pm == doc[PageOf(key)]
    IN IF ~Truthy(pm) \/ ~Has(pm, key) THEN "none"
       ELSE IF key \in RadioKeys THEN "select_radio"
       ELSE IF pm.vals[key] = "list" THEN "select_checkboxes"
       ELSE "none"

\* the matrix statement choosing by the mapping alone, whatever the flag
MatrixFillerByMapping(doc, key) ==
    LET pm == doc.page3
    IN IF ~Truthy(pm) THEN "none"
       ELSE IF Has(pm, key) /\ pm.vals[key] = "dict" THEN "select_linear_scale_from_dict"
       ELSE "select_linear_scale_permutation"

\* lines 356, 360-374: the filler applied to a rating matrix
MatrixFiller(doc, key) ==
    LET pm   == doc.page3
        flag == IF Has(pm, FlagOf(key)) THEN pm.vals[FlagOf(key)] = "true" ELSE TRUE
    IN IF ~Truthy(pm) THEN "none"
       ELSE IF flag THEN "select_linear_scale_permutation"
       ELSE IF Has(pm, key) /\ pm.vals[key] = "dict" THEN "select_linear_scale_from_dict"
       ELSE "select_linear_scale_permutation"

FillerAt(doc, site) ==
    IF site \in MatrixKeys THEN MatrixFiller(doc, site) ELSE SelectFiller(doc, site)

\* what a call of each filler can end with, over the bounded pages
PauseOps == {"sleep", "wait_idle"}

\* in the interactions evs every click is followed, before any other click,
\* by a fixed pause or an idle-wait
Paused(evs) ==
    \A i \in 1..Len(evs) :
        evs[i].op = "click" =>
            \E j \in (i + 1)..Len(evs) :
                /\ evs[j].op \in PauseOps
                /\ \A l \in (i + 1)..j : evs[l].op # "click"

\* what run_bot sees of a call: the error it raised ("ok" when it returned);
\* serial records whether its clicks were each followed by a pause
Outcome(res) == [error |-> res.error, serial |-> Paused(res.events)]

RadioOutcomes == {Outcome(select_radio(b, c)) : b \in Blocks, c \in Labels}
CheckboxOutcomes ==
    {Outcome(select_checkboxes(b, chs)) : b \in Blocks, chs \in SeqsUpTo(Labels, MaxChoices)}
PermutationOutcomes ==
    UNION {{Outcome(select_linear_scale_permutation(m, cols)) : cols \in Shuffles(m.cols)} :
              m \in Matrices}
FromDictOutcomes ==
    {Outcome(select_linear_scale_from_dict(m, rtv)) :
        m \in Matrices, rtv \in SeqsUpTo(RowValues, MaxItems)}
NextOutcomes == {Outcome(click_next(p)) : p \in ButtonPages}
SubmitOutcomes == {Outcome(click_submit(p)) : p \in ButtonPages}

OutcomesOf(op) ==
    IF op = "select_radio" THEN RadioOutcomes
    ELSE IF op = "select_checkboxes" THEN CheckboxOutcomes
    ELSE IF op = "select_linear_scale_permutation" THEN PermutationOutcomes
    ELSE IF op = "select_linear_scale_from_dict" THEN FromDictOutcomes
    ELSE IF op = "click_next" THEN NextOutcomes
    ELSE SubmitOutcomes

\* a call that swallows the exception and goes on
AfterIgnoringError(site, outcome) == NextSite(site)

\* an exception raised by a call is caught nowhere in run_bot: it leaves the
\* function; a call that returns goes on with the next statement
After(site, outcome) == IF outcome = "ok" THEN NextSite(site) ELSE "raised"

Call(op, key, outcome) == [op |-> op, key |-> key, error |-> outcome]

FieldSites == RadioKeys \cup CheckboxKeys \cup MatrixKeys

\* line 307: the with block is left, by the return or by an exception, and
\* sync_playwright's exit stops the driver
Playwright(next) == IF next \in {"done", "raised"} THEN "stopped" ELSE "running"

InitRun ==
    /\ SamplingIdle
    /\ free = "all"
    /\ BuildIdle
    /\ FillersIdle
    /\ answers \in Docs
    /\ rpc = "launch"
    /\ log = <<>>
    /\ state = "none"
    /\ closed = FALSE
    /\ playwright = "none"
    /\ serialized = TRUE

\* lines 307-312: the browser is launched, the form is opened and wait_idle
\* is called
Launch ==
    /\ rpc = "launch"
    /\ \E idle \in BOOLEAN :
          /\ rpc' = After(rpc, wait_idle(idle).error)
          /\ playwright' = Playwright(rpc')
    /\ state' = "Page1"
    /\ UNCHANGED <<svars, free, bvars, fvars, answers, log, closed, serialized>>

\* a field statement whose conditions hold: the filler is called
Fill ==
    /\ rpc \in FieldSites
    /\ FillerAt(answers, rpc) # "none"
    /\ \E outcome \in OutcomesOf(FillerAt(answers, rpc)) :
          /\ log' = Append(log, Call(FillerAt(answers, rpc), rpc, outcome.error))
          /\ rpc' = After(rpc, outcome.error)
          /\ serialized' = (serialized /\ outcome.serial)
    /\ playwright' = Playwright(rpc')
    /\ UNCHANGED <<svars, free, bvars, fvars, answers, state, closed>>

\* a field statement whose conditions fail: nothing is called
Skip ==
    /\ rpc \in FieldSites
    /\ FillerAt(answers, rpc) = "none"
    /\ rpc' = NextSite(rpc)
    /\ UNCHANGED <<svars, free, bvars, fvars, answers, log, state, closed,
                   playwright, serialized>>

\* lines 329 and 352
ClickNext ==
    /\ rpc \in {"next1", "next2"}
    /\ \E outcome \in OutcomesOf("click_next") :
          /\ log' = Append(log, Call("click_next", rpc, outcome.error))
          /\ rpc' = After(rpc, outcome.error)
          /\ serialized' = (serialized /\ outcome.serial)
          /\ state' = IF outcome.error # "ok" THEN state
                      ELSE IF state = "Page1" THEN "Page2" ELSE "Page3"
    /\ playwright' = Playwright(rpc')
    /\ UNCHANGED <<svars, free, bvars, fvars, answers, closed>>

\* line 376
ClickSubmit ==
    /\ rpc = "submit"
    /\ \E outcome \in OutcomesOf("click_submit") :
          /\ log' = Append(log, Call("click_submit", rpc, outcome.error))
          /\ rpc' = After(rpc, outcome.error)
          /\ serialized' = (serialized /\ outcome.serial)
          /\ state' = IF outcome.error = "ok" THEN "Submitted" ELSE state
    /\ playwright' = Playwright(rpc')
    /\ UNCHANGED <<svars, free, bvars, fvars, answers, closed>>

\* lines 379-380: ctx.close() and browser.close(), then the with block ends
Close ==
    /\ rpc = "close"
    /\ closed' = TRUE
    /\ rpc' = NextSite(rpc)
    /\ playwright' = Playwright(rpc')
    /\ UNCHANGED <<svars, free, bvars, fvars, answers, log, state, serialized>>

Next == Launch \/ Fill \/ Skip \/ ClickNext \/ ClickSubmit \/ Close

Spec == InitRun /\ [][Next]_vars

SelectOps == {"select_radio", "select_checkboxes"}
MatrixOps == {"select_linear_scale_permutation", "select_linear_scale_from_dict"}
FillerOps == SelectOps \cup MatrixOps

\* the calls of the fillers in ops made for a question key
CallsFor(key, ops) == {i \in 1..Len(log) : log[i].key = key /\ log[i].op \in ops}
CallsOf(op) == {i \in 1..Len(log) : log[i].op = op}

\* where a call belongs in the page order: page-1 fields, first advance,
\* page-2 fields, second advance, page-3 fields, submit
Rank(e) ==
    IF e.op = "click_submit" THEN 6
    ELSE IF e.op = "click_next" THEN (IF e.key = "next1" THEN 2 ELSE 4)
    ELSE IF PageOf(e.key) = "page1" THEN 1
    ELSE IF PageOf(e.key) = "page2" THEN 3
    ELSE 5

\* no call of an earlier page follows a call of a later page
InPageOrder == \A i, j \in 1..Len(log) : i < j => Rank(log[i]) <= Rank(log[j])

\* two advance clicks, then exactly one submit click as the last call
ButtonsOnce ==
    /\ Cardinality(CallsFor("next1", {"click_next"})) = 1
    /\ Cardinality(CallsFor("next2", {"click_next"})) = 1
    /\ CallsOf("click_submit") = {Len(log)}

AllPagesNonEmpty == \A pg \in {"page1", "page2", "page3"} : Truthy(answers[pg])

\* C1 as stated: with three non-empty pages and a run that completes, every
\* question key present in the document gets exactly one single-select or
\* multi-select filler call, in page order, and one submit click comes last.
C1_Original ==
    (rpc = "done" /\ AllPagesNonEmpty) =>
        /\ \A key \in RadioKeys \cup CheckboxKeys :
              Has(answers[PageOf(key)], key) => Cardinality(CallsFor(key, SelectOps)) = 1
        /\ InPageOrder
        /\ ButtonsOnce

\* C1 amended: no call of an earlier page ever follows a call of a later
\* page; and with three non-empty pages and a run that completes, every
\* single-select key present, and every multi-select key present with a list
\* value, gets exactly one filler call (a multi-select key whose value is not
\* a list gets none), the page-1 calls before the first advance click, the
\* page-2 calls between the two, the page-3 calls after the second, and
\* exactly one submit click comes last.
C1_PageOrder ==
    /\ InPageOrder
    /\ (rpc = "done" /\ AllPagesNonEmpty) =>
          /\ \A key \in RadioKeys :
                Has(answers[PageOf(key)], key) =>
                    /\ Cardinality(CallsFor(key, {"select_radio"})) = 1
                    /\ CallsFor(key, FillerOps \ {"select_radio"}) = {}
          /\ \A key \in CheckboxKeys :
                Has(answers[PageOf(key)], key) =>
                    /\ Cardinality(CallsFor(key, {"select_checkboxes"})) =
                          (IF answers[PageOf(key)].vals[key] = "list" THEN 1 ELSE 0)
                    /\ CallsFor(key, FillerOps \ {"select_checkboxes"}) = {}
          /\ ButtonsOnce

\* a completed run on a document with every key present: 11 select calls,
\* two matrix calls, two advance clicks and the submit click
C1_Witness ==
    /\ rpc = "done"
    /\ answers = GeneratedDoc
    /\ Len(log) = 16

\* a rating-matrix question appears in the document when its flag or its
\* mapping does
Appears(key) ==
    IF key \in MatrixKeys
    THEN Has(answers.page3, key) \/ Has(answers.page3, FlagOf(key))
    ELSE Has(answers[PageOf(key)], key)

\* C2 as stated: no filler (single-select, multi-select or rating-matrix) is
\* called for a question whose key or flag is absent from the document, and
\* the only other clicks are the two advance clicks and the submit click.
C2_Original ==
    /\ \A i \in 1..Len(log) : log[i].op \in FillerOps => Appears(log[i].key)
    /\ rpc = "done" =>
          /\ Cardinality(CallsOf("click_next")) = 2
          /\ Cardinality(CallsOf("click_submit")) = 1

\* C2 amended: no single-select or multi-select filler is called for a key
\* absent from the document, and the only clicks besides the fillers' are the
\* two advance clicks and the submit click; a rating-matrix filler is called
\* only when the page-3 mapping is non-empty, and then for both matrices even
\* when their flag and mapping are absent.
C2_NoCallForAbsentKey ==
    /\ \A i \in 1..Len(log) :
          /\ log[i].op \in SelectOps => Has(answers[PageOf(log[i].key)], log[i].key)
          /\ log[i].op \in MatrixOps => Truthy(answers.page3)
          /\ log[i].op \in FillerOps \cup {"click_next", "click_submit"}
    /\ rpc = "done" =>
          /\ Cardinality(CallsOf("click_next")) = 2
          /\ Cardinality(CallsOf("click_submit")) = 1
          /\ Truthy(answers.page3) =>
                \A key \in MatrixKeys : Cardinality(CallsFor(key, MatrixOps)) = 1

\* a completed run on a page-3 mapping that holds none of the keys run_bot
\* reads: no call for preferencia, one call for each matrix
C2_Witness ==
    /\ rpc = "done"
    /\ Truthy(answers.page3)
    /\ DOMAIN answers.page3.vals = {}
    /\ CallsFor("preferencia", FillerOps) = {}
    /\ CallsFor("beneficios", MatrixOps) # {}

\* C3: a failed call is the last call of the run: after it nothing is
\* clicked, no page is advanced, nothing is submitted, Submitted is not
\* reached, and the failed field was not and is not tried again.
C3_FailureIsFatal ==
    /\ \A i \in 1..Len(log) :
          log[i].error # "ok" =>
              /\ i = Len(log)
              /\ rpc = "raised"
              /\ state # "Submitted"
              /\ \A j \in 1..(i - 1) : log[j].key # log[i].key
    /\ rpc = "raised" => (Len(log) > 0 /\ log[Len(log)].error # "ok")
    /\ rpc = "raised" => state # "Submitted"

\* a run that failed in the second rating matrix, after 14 calls that
\* returned
C3_Witness ==
    /\ rpc = "raised"
    /\ Len(log) = 15
    /\ log[15].key = "preocupaciones"
    /\ log[15].error = "NoRows"
    /\ state = "Page3"

SubmitIndex == CHOOSE i \in CallsOf("click_submit") : TRUE

MatricesApplied ==
    \A key \in MatrixKeys :
        \E i \in CallsFor(key, MatrixOps) : log[i].error = "ok" /\ i < SubmitIndex

\* C4 as stated: for every answer document, in a run that reaches Submitted
\* each of the two rating matrices had a matrix filler applied before the
\* submit click.
C4_Original == state = "Submitted" => MatricesApplied

\* C4 amended: in a run that reaches Submitted on a document whose page-3
\* mapping is non-empty, preferencia (when present) and both rating matrices
\* had their filler applied before the submit click; with an empty page-3
\* mapping the submit click follows the second advance click directly.
C4_MatricesBeforeSubmit ==
    state = "Submitted" =>
        /\ Truthy(answers.page3) =>
              /\ MatricesApplied
              /\ Has(answers.page3, "preferencia") =>
                    \E i \in CallsFor("preferencia", {"select_radio"}) : i < SubmitIndex
        /\ ~Truthy(answers.page3) =>
              /\ \A key \in ReadKeys.page3 : CallsFor(key, FillerOps) = {}
              /\ log[SubmitIndex - 1].op = "click_next"

\* a submitted run whose first matrix was filled from explicit values
C4_Witness ==
    /\ state = "Submitted"
    /\ Truthy(answers.page3)
    /\ \E i \in CallsFor("beneficios", {"select_linear_scale_from_dict"}) : TRUE
    /\ \E i \in CallsFor("preocupaciones", {"select_linear_scale_permutation"}) : TRUE

(***************************************************************************)
(* Specification SpecFillers: one call of one filler or button function,   *)
(* on a page and with arguments drawn from the bounded sets.               *)
(***************************************************************************)
ButtonOps == {"click_next", "click_submit"}

InitFillers ==
    /\ SamplingIdle
    /\ RunIdle
    /\ free = "all"
    /\ BuildIdle
    /\ columns = <<>>
    /\ events = <<>>
    /\ error = "ok"
    /\ calls = 0
    /\ mark = 0
    /\ filler \in FillerOps \cup ButtonOps
    /\ IF filler \in SelectOps THEN block \in Blocks ELSE block = NoBlock
    /\ IF filler = "select_radio" THEN choices \in {<<c>> : c \in Labels}
       ELSE IF filler = "select_checkboxes" THEN choices \in SeqsUpTo(Labels, MaxChoices)
       ELSE choices = <<>>
    /\ IF filler \in MatrixOps THEN matrix \in Matrices ELSE matrix = NoMatrix
    /\ IF filler = "select_linear_scale_from_dict"
       THEN rows_to_values \in SeqsUpTo(RowValues, MaxItems)
       ELSE rows_to_values = <<>>
    /\ IF filler \in ButtonOps THEN buttons \in ButtonPages ELSE buttons = NoButtons

\* select_radio(page, question_title, choice_text)
CallSelectRadio ==
    /\ calls = 0
    /\ filler = "select_radio"
    /\ LET res == select_radio(block, choices[1])
       IN /\ block' = res.block
          /\ events' = res.events
          /\ error' = res.error
    /\ calls' = 1
    /\ UNCHANGED <<svars, free, bvars, filler, choices, rows_to_values, buttons, matrix,
                   columns, mark, rvars>>

\* select_checkboxes(page, question_title, choices)
CallSelectCheckboxes ==
    /\ calls = 0
    /\ filler = "select_checkboxes"
    /\ LET res == select_checkboxes(block, choices)
       IN /\ block' = res.block
          /\ events' = res.events
          /\ error' = res.error
    /\ calls' = 1
    /\ UNCHANGED <<svars, free, bvars, filler, choices, rows_to_values, buttons, matrix,
                   columns, mark, rvars>>

\* select_linear_scale_permutation(page, group_title)
CallPermutation ==
    /\ calls = 0
    /\ filler = "select_linear_scale_permutation"
    /\ \E cols \in Shuffles(matrix.cols) :
          LET res == select_linear_scale_permutation(matrix, cols)
          IN /\ columns' = (IF matrix.found /\ matrix.rows > 0 /\ matrix.cols > 0
                            THEN cols ELSE <<>>)
             /\ events' = res.events
             /\ error' = res.error
    /\ calls' = 1
    /\ UNCHANGED <<svars, free, bvars, filler, block, choices, rows_to_values, buttons,
                   matrix, mark, rvars>>

\* select_linear_scale_from_dict(page, group_title, rows_to_values)
CallFromDict ==
    /\ calls = 0
    /\ filler = "select_linear_scale_from_dict"
    /\ LET res == select_linear_scale_from_dict(matrix, rows_to_values)
       IN /\ events' = res.events
          /\ error' = res.error
    /\ calls' = 1
    /\ UNCHANGED <<svars, free, bvars, filler, block, choices, rows_to_values, buttons,
                   matrix, columns, mark, rvars>>

\* click_next(page)
CallClickNext ==
    /\ calls = 0
    /\ filler = "click_next"
    /\ LET res == click_next(buttons)
       IN /\ events' = res.events
          /\ error' = res.error
    /\ calls' = 1
    /\ UNCHANGED <<svars, free, bvars, filler, block, choices, rows_to_values, buttons,
                   matrix, columns, mark, rvars>>

\* click_submit(page)
CallClickSubmit ==
    /\ calls = 0
    /\ filler = "click_submit"
    /\ LET res == click_submit(buttons)
       IN /\ events' = res.events
          /\ error' = res.error
    /\ calls' = 1
    /\ UNCHANGED <<svars, free, bvars, filler, block, choices, rows_to_values, buttons,
                   matrix, columns, mark, rvars>>

NextFillers ==
    \/ CallSelectRadio
    \/ CallSelectCheckboxes
    \/ CallPermutation
    \/ CallFromDict
    \/ CallClickNext
    \/ CallClickSubmit

SpecFillers == InitFillers /\ [][NextFillers]_vars

\* C11: when no question block matches the title, each of the four field
\* fillers fails with the not-found error and has made no page interaction
\* (no click, no wait, no scroll, no pause); the page is left as it was.
C11_NotFoundBeforeAnyClick ==
    (calls = 1 /\ filler \in FillerOps) =>
        LET found == IF filler \in SelectOps THEN block.found ELSE matrix.found
        IN /\ ~found => (error = "NotFound" /\ events = <<>>)
           /\ error = "NotFound" => (~found /\ events = <<>>)

\* select_linear_scale_from_dict called with one item on a page without the
\* block
C11_Witness ==
    /\ calls = 1
    /\ filler = "select_linear_scale_from_dict"
    /\ ~matrix.found
    /\ Len(rows_to_values) = 1
    /\ error = "NotFound"
    /\ events = <<>>

\* C13: in a call of select_linear_scale_from_dict on a located block, every
\* item whose row resolves to an element with C >= 1 radios, for every value
\* (zero, negative or greater than C), gets exactly one click, on the radio
\* of 0-based index min(max(value, 1), C) - 1 of that element, an index in
\* 0..C-1; the call fails only on a row that is not on the page, that has no
\* radio, or whose scroll or click times out.
C13_ClampedIndex ==
    (calls = 1 /\ filler = "select_linear_scale_from_dict" /\ matrix.found) =>
        LET cl == Clicks(events)
        IN /\ Len(cl) <= Len(rows_to_values)
           /\ \A j \in 1..Len(cl) :
                 LET row   == rows_to_values[j][1]
                     value == rows_to_values[j][2]
                     C     == RadioCount(matrix, row)
                 IN /\ C >= 1
                    /\ cl[j].row = row
                    /\ cl[j].col = Min(Max(value, 1), C) - 1
                    /\ cl[j].col \in 0..(C - 1)
           /\ error = "ok" => Len(cl) = Len(rows_to_values)
           /\ error # "ok" =>
                 LET row == rows_to_values[Len(cl) + 1][1]
                 IN \/ RowVia(matrix, row) = "none"
                    \/ RadioCount(matrix, row) = 0
                    \/ matrix.failAt = row + 1

\* a value above the column count, saturated to the last radio of the row
C13_Witness ==
    /\ calls = 1
    /\ filler = "select_linear_scale_from_dict"
    /\ error = "ok"
    /\ matrix.cols = 2
    /\ Len(rows_to_values) = 1
    /\ rows_to_values[1][1] = 1
    /\ rows_to_values[1][2] = MaxCols + 1
    /\ Clicks(events)[1].col = 1

\* the result of the call on the same page and arguments
CallResult(f, b, chs, m, cols, rtv, p) ==
    IF f = "select_radio" THEN select_radio(b, chs[1])
    ELSE IF f = "select_checkboxes" THEN select_checkboxes(b, chs)
    ELSE IF f = "select_linear_scale_permutation" THEN select_linear_scale_permutation(m, cols)
    ELSE IF f = "select_linear_scale_from_dict" THEN select_linear_scale_from_dict(m, rtv)
    ELSE IF f = "click_next" THEN click_next(p)
    ELSE click_submit(p)

\* the call made in this step, had the page gone idle within every wait
OnIdlePage ==
    CallResult(filler, [block EXCEPT !.idle = TRUE], choices,
               [matrix EXCEPT !.idle = TRUE], columns', rows_to_values,
               [buttons EXCEPT !.idle = TRUE])

\* C15: a call of a filler, of click_next or of click_submit on a page whose
\* idle-wait times out returns or fails exactly as on the same page going
\* idle, and makes the same sequence of clicks.
C15_IdleWaitSwallowed ==
    [][(calls = 0 /\ calls' = 1) =>
          /\ error' = OnIdlePage.error
          /\ Clicks(events') = Clicks(OnIdlePage.events)]_vars

\* a select_checkboxes call of two clicks whose idle-wait timed out
C15_Witness ==
    /\ calls = 1
    /\ filler = "select_checkboxes"
    /\ ~block.idle
    /\ error = "ok"
    /\ Len(Clicks(events)) = 2
    /\ events[Len(events)].op = "wait_idle"
    /\ events[Len(events)].what = "timeout"

\* C17: a call of select_radio that returns has made exactly one click, on
\* the requested choice, followed by exactly one idle-wait, whether the role
\* locator or the text locator resolved the control; a call that fails has
\* made no click, and it fails with not-found when the block is missing.
C17_OneClickPerCall ==
    (calls = 1 /\ filler = "select_radio") =>
        /\ error = "ok" =>
              /\ Len(events) = 2
              /\ events[1].op = "click"
              /\ events[1].what = choices[1]
              /\ events[1].via \in {"role", "text"}
              /\ events[2].op = "wait_idle"
        /\ error # "ok" => events = <<>>
        /\ ~block.found => error = "NotFound"
        /\ (block.found /\ block.loc[choices[1]] # "none") => error = "ok"

\* a returned call whose control was resolved by the text locator
C17_Witness ==
    /\ calls = 1
    /\ filler = "select_radio"
    /\ error = "ok"
    /\ events[1].via = "text"
    /\ Len(Clicks(events)) = 1

\* C18: in select_radio and select_checkboxes the element clicked for a
\* label is the role match whenever the role+label locator matches a
\* control, and a text match only when the role+label locator matches none.
C18_RoleBeforeText ==
    (calls = 1 /\ filler \in SelectOps) =>
        \A i \in 1..Len(events) :
            events[i].op = "click" =>
                /\ events[i].via \in {"role", "text"}
                /\ events[i].via = "text" => block.loc[events[i].what] = "text"
                /\ block.loc[events[i].what] \in {"both", "role"} => events[i].via = "role"

\* a select_checkboxes call clicking one control that both locators match
\* and one that only the text locator matches
C18_Witness ==
    /\ calls = 1
    /\ filler = "select_checkboxes"
    /\ Len(Clicks(events)) = 2
    /\ block.loc[events[1].what] = "both"
    /\ events[1].via = "role"
    /\ Clicks(events)[2].via = "text"

\* C14 (under SpecMatrix): a located matrix with zero rows makes
\* select_linear_scale_permutation fail with the no-rows error, one with rows
\* but zero radios in row 0 with the no-columns error; in both cases nothing
\* is clicked and columns is never indexed; a click implies a positive
\* column count.
C14_EmptyMatrixFails ==
    calls = 1 =>
        /\ (matrix.found /\ matrix.rows = 0) => error = "NoRows"
        /\ (matrix.found /\ matrix.rows >= 1 /\ matrix.cols = 0) => error = "NoColumns"
        /\ error \in {"NoRows", "NoColumns"} => (events = <<>> /\ columns = <<>>)
        /\ Clicks(events) # <<>> => (matrix.rows >= 1 /\ matrix.cols >= 1)

\* a matrix of MaxRows rows without radios
C14_Witness ==
    /\ calls = 1
    /\ matrix.found
    /\ matrix.rows = MaxRows
    /\ matrix.cols = 0
    /\ error = "NoColumns"
    /\ events = <<>>

(***************************************************************************)
(* Properties of run_bot (specification Spec), continued.                  *)
(***************************************************************************)
\* C12: in every terminal state of run_bot, Submitted or failed, ctx.close()
\* and browser.close() have run.
C12_ClosedAtEnd == rpc \in {"done", "raised"} => closed

\* C16: every click of the run so far was followed, before the next click,
\* by a fixed pause or an idle-wait, and so is every click of any call that
\* a filler or a button function can make.
C16_ClicksSerialized ==
    /\ serialized
    /\ \A f \in FillerOps \cup {"click_next", "click_submit"} :
          \A o \in OutcomesOf(f) : o.serial

\* a submitted run that filled checkboxes and a matrix
C16_Witness ==
    /\ rpc = "close"
    /\ state = "Submitted"
    /\ serialized
    /\ CallsFor("herramientas", {"select_checkboxes"}) # {}
    /\ CallsFor("preocupaciones", {"select_linear_scale_permutation"}) # {}

\* the position of a statement in run_bot
SiteIndex(site) == CHOOSE j \in 1..Len(RunOrder) : RunOrder[j] = site

\* the run has executed the statement of the field key
Executed(key) ==
    \/ rpc = "done"
    \/ rpc \in Range(RunOrder) /\ SiteIndex(rpc) > SiteIndex(key)
    \/ rpc = "raised" /\ \E i \in 1..Len(log) :
                            log[i].key \in {key, "preocupaciones", "submit"}

\* the matrix filler C19 names for a matrix
NamedFiller(key) ==
    LET pm == answers.page3
    IN IF /\ Has(pm, FlagOf(key))
          /\ pm.vals[FlagOf(key)] = "false"
          /\ Has(pm, key)
          /\ pm.vals[key] = "dict"
       THEN "select_linear_scale_from_dict"
       ELSE "select_linear_scale_permutation"

\* C19: for each rating matrix, a run that executes the matrix's statement
\* with a non-empty page-3 mapping has applied exactly one matrix filler to
\* it: the explicit-values filler if and only if the flag is present and
\* false and the mapping is a dictionary, the permutation filler otherwise;
\* no run applies two fillers to a matrix.
C19_OneMatrixFiller ==
    \A key \in MatrixKeys :
        LET cs == CallsFor(key, MatrixOps)
        IN /\ Cardinality(cs) <= 1
           /\ \A i \in cs : log[i].op = NamedFiller(key) /\ Truthy(answers.page3)
           /\ (Truthy(answers.page3) /\ Executed(key)) => Cardinality(cs) = 1

\* a completed run with both flags false, the first matrix with a dictionary
\* and the second with a value that is not a dictionary
C19_Witness ==
    /\ rpc = "done"
    /\ Has(answers.page3, "beneficios_permutar")
    /\ answers.page3.vals["beneficios_permutar"] = "false"
    /\ Has(answers.page3, "preocupaciones_permutar")
    /\ answers.page3.vals["preocupaciones_permutar"] = "false"
    /\ Has(answers.page3, "preocupaciones")
    /\ answers.page3.vals["preocupaciones"] = "label"
    /\ CallsFor("beneficios", {"select_linear_scale_from_dict"}) # {}
    /\ CallsFor("preocupaciones", {"select_linear_scale_permutation"}) # {}

(***************************************************************************)
(* Properties of build_prob_answers (specification SpecBuild), continued.  *)
(***************************************************************************)
\* the list and the weight table build_prob_answers passes to the sampler
PassedOptions(site) ==
    IF site = "herramientas" THEN FilterSeq(InitialOPTS.herramientas, Ninguno)
    ELSE IF site = "so_virtualizados" THEN InitialOPTS.so_virtualizados_main
    ELSE InitialOPTS.impedimentos_main

PassedWeights(site) ==
    IF site = "herramientas" THEN InitialWEIGHTS.herramientas
    ELSE IF site = "so_virtualizados" THEN InitialWEIGHTS.so_virtualizados_main
    ELSE InitialWEIGHTS.impedimentos_main

\* C20: at every point of any number of build_prob_answers calls the
\* catalogs OPTS and WEIGHTS equal their initial values, and throughout a
\* weighted_sample_unique call its options and weights_map arguments are
\* what the caller passed.
C20_InputsUnchanged ==
    /\ OPTS = InitialOPTS
    /\ WEIGHTS = InitialWEIGHTS
    /\ spc \in {"call", "loop", "returned"} =>
          /\ options = PassedOptions(bpc)
          /\ weights_map = PassedWeights(bpc)

\* the second call has returned, after a sample of three entries taken
\* from a catalog list passed without copying
C20_Witness ==
    /\ bpc = "done"
    /\ builds = 2
    /\ Len(built["impedimentos"]) = 3
    /\ Len(remaining) = Len(InitialOPTS.impedimentos_main) - 3

====
